---- MODULE Spec2Model ----
(***************************************************************************)
(* Model of MLI-lab/imagenet_candidate_training.                           *)
(*                                                                         *)
(*   code_for_clustering_npz_files.py : the batching loop (SpecBatch)      *)
(*   train.py                         : main_worker, validate, accuracy,   *)
(*                                      _parse_args                        *)
(*                                                                         *)
(* Python indices are kept 0-based as in the source; TLA+ sequences are    *)
(* 1-based, so element i of a Python list l is l[i + 1] here.              *)
(* Calls into numpy, torch, torchvision and json are taken to succeed;     *)
(* the model follows the control flow and the name bindings of the         *)
(* repository's own code.                                                  *)
(***************************************************************************)
EXTENDS Integers, Sequences, FiniteSets, TLC

VARIABLES
    \* ---- code_for_clustering_npz_files.py ----
    npz_size_list,  \* sizes of the source archives (npz_list[i] has npz_size_list[i] images)
    rand_idx,       \* one period of the sampled global indices
    num_idx,        \* len(rand_idx): the period is repeated up to this length
    pos,            \* number of indices the for loop has taken so far
    bpc,            \* position in the loop body
    cur_idx,        \* loop variable (-1 before the first iteration binds it)
    cur_npz,        \* <<cur_npz_file, cur_npz_idx>> (index into npz_list, offset
                    \* into that archive); <<>> while the two names are unbound
    assigned,       \* a remapping branch assigned in the current iteration
    im_arr,
    lbl_arr,
    save_idx,
    saved,          \* the archives written: candidate_batch_<name>.npz
    \* ---- train.py: main_worker ----
    argv,           \* the arguments as parsed from the command line and the config
    args,           \* the argparse namespace main_worker is called with
    tpc,            \* position in main_worker
    run,            \* number of the process run (1 = first start, 2.. = restarts)
    best_acc1,      \* module-level global
    model,          \* the network's weights, as the accuracy they give on each loader
    scheduler,      \* TRUE once the name scheduler is bound (line 111)
    val_loader2,    \* TRUE once the name val_loader2 is bound (line 240 or 256)
    epoch,          \* loop variable (-1 before the loop binds it)
    epoch_log,      \* dict built during an epoch
    train_log,      \* list of the epoch dicts
    acc1,           \* test accuracy of the current epoch (line 311)
    log_file,       \* contents of <outpath>/log.json, <<>> while it does not exist
    ckpt_file,      \* <<state>> written by save_checkpoint, <<>> while no file exists
    calls,          \* the calls this run has made, in order
    trained,        \* epochs given a training pass since the first start, up to and
                    \* including this run's
    ckpt_trained,   \* value of trained when ckpt_file was last written
    best_at_start,  \* best_acc1 when the epoch loop was entered
    \* ---- train.py: _parse_args ----
    sys_argv,       \* the command line after the program name
    cfg_file,       \* the dictionary json.load gives for the file cfg.json
    apc,            \* position in _parse_args
    args_config,    \* namespace of config_parser
    remaining,      \* the arguments config_parser did not take
    defaults,       \* the defaults of parser: dest -> value
    parsed,         \* the namespace _parse_args returns
    \* ---- train.py: validate ----
    val_loader,     \* the batches of the loader: sequences of [output, target]
    vargs,          \* args of the call: batch_size, track_correct
    vpc,            \* position in validate
    vi,             \* batches taken from the loader so far (i of enumerate)
    top1,           \* AverageMeter: [sum, count]
    top5,           \* AverageMeter: [sum, count]
    corr_dict,      \* corr_dict['correct']
    vresult,        \* what validate returns
    \* ---- train.py: main_worker, class selection and label noise ----
    select_class_list, \* args.select_class_list
    train_size,     \* args.train_size
    num_classes,    \* args.num_classes
    inject_noise,   \* args.inject_noise as the fraction [num, den]
    train_samples,  \* class of each entry of train_dataset.samples
    train_targets,  \* train_dataset.targets
    test_samples,   \* class of each entry of test_dataset.samples
    test_targets,   \* test_dataset.targets
    noisy_labels,   \* noisy_labels (line 198)
    ni,             \* classes the loop of line 200 has done
    dpc             \* position in lines 173-208

batchVars == <<npz_size_list, rand_idx, num_idx, pos, bpc, cur_idx, cur_npz,
               assigned, im_arr, lbl_arr, save_idx, saved>>

trainVars == <<argv, args, tpc, run, best_acc1, model, scheduler, val_loader2, epoch,
               epoch_log, train_log, acc1, log_file, ckpt_file, calls, trained,
               ckpt_trained, best_at_start>>

argVars == <<sys_argv, cfg_file, apc, args_config, remaining, defaults, parsed>>

valVars == <<val_loader, vargs, vpc, vi, top1, top5, corr_dict, vresult>>

dataVars == <<select_class_list, train_size, num_classes, inject_noise, train_samples,
              train_targets, test_samples, test_targets, noisy_labels, ni, dpc>>

vars == <<batchVars, trainVars, argVars, valVars, dataVars>>

(***************************************************************************)
(* Bounds of the model.                                                    *)
(***************************************************************************)
MaxArchives == 3    \* at most this many source archives
MaxSize == 2        \* each archive holds 1..MaxSize images
MaxSamples == 2     \* short index lists have 1..MaxSamples entries
MaxEpochs == 2      \* args.epochs, args.start_epoch, args.max_lr_adjusting_epoch <= MaxEpochs
MaxRuns == 2        \* the training process is started at most MaxRuns times
MaxArgs == 4        \* the command line has at most MaxArgs arguments
NumClasses == 6     \* classes scored by the network (more than five)
MaxBatchSize == 2   \* args.batch_size <= MaxBatchSize
MaxBatches == 2     \* a loader yields 1..MaxBatches batches
MaxData == 2        \* a dataset folder holds 1..MaxData samples
MaxTrainSize == 1   \* args.train_size <= MaxTrainSize
MaxNoiseClasses == 3 \* args.num_classes <= MaxNoiseClasses when noise is injected
MaxPerClass == 4    \* a balanced training set has 1..MaxPerClass samples per class

(***************************************************************************)
(* code_for_clustering_npz_files.py                                        *)
(***************************************************************************)
save_lim == 2000

RECURSIVE SumUpTo(_, _)
\* sum(l[:n]) for 0 <= n <= len(l)
SumUpTo(l, n) == IF n = 0 THEN 0 ELSE SumUpTo(l, n - 1) + l[n]

\* sum(npz_size_list[:-1])
SumButLast(l) == SumUpTo(l, Len(l) - 1)

Total(l) == SumUpTo(l, Len(l))

\* entry n (0-based) of the index list
RandIdxAt(n) == rand_idx[(n % Len(rand_idx)) + 1]

\* chosen_dict[<class directory of npz_list[k]>]: archives 0,1 lie in the
\* directory of class 0, archives 2,3 in that of class 1, ...
chosen_dict(k) == k \div 2

\* line 30: the label appended for an image loaded from archive file
LabelMutant(file) == file
Label(file) == chosen_dict(file)

RECURSIVE MiddleSearch(_, _, _)
\* lines 20-27: for i in range(i, len(l)); the first i whose test succeeds
\* gives <<i, cur_idx - (size_1 + 1)>>; <<>> when the loop ends without break
MiddleSearch(l, g, i) ==
    IF i > Len(l) - 1 THEN <<>>
    ELSE LET size_1 == SumUpTo(l, i - 1) - 1
             size_2 == size_1 + l[i + 1]
         IN IF (g > size_1) /\ (g < size_2)
            THEN <<i, g - (size_1 + 1)>>
            ELSE MiddleSearch(l, g, i + 1)

\* lines 10-27 with line 16 as cur_idx - (sum(npz_size_list[:-1]) - 1)
RemapBranchesMutant(l, g) ==
    IF g < l[1] - 1 THEN <<0, g>>
    ELSE IF g > SumButLast(l) - 1 THEN <<Len(l) - 1, g - (SumButLast(l) - 1)>>
    ELSE MiddleSearch(l, g, 1)

\* lines 10-27: the archive and offset assigned for global index g;
\* <<>> when no branch assigns
RemapBranches(l, g) ==
    IF g < l[1] - 1 THEN <<0, g>>
    ELSE IF g > SumButLast(l) - 1 THEN <<Len(l) - 1, g - SumButLast(l)>>
    ELSE MiddleSearch(l, g, 1)

\* line 32
SaveDueMutant(n) == n > save_lim
SaveDue(n) == n >= save_lim

SizeLists == UNION {[1..n -> 1..MaxSize] : n \in 1..MaxArchives}

\* short index lists over the archives of sizes l: 1..MaxSamples global indices
ShortLists(l) == UNION {[1..n -> 0..(Total(l) - 1)] : n \in 1..MaxSamples}

\* index lists long enough to fill one batch, or two, and leave one item:
\* every index in turn, repeated
LongInputs ==
    {<<l, [n \in 1..Total(l) |-> n - 1], k * save_lim + 1>> :
        l \in {[i \in 1..n |-> MaxSize] : n \in 1..MaxArchives}, k \in 1..2}

BatchStart ==
    /\ \/ \E l \in SizeLists : \E r \in ShortLists(l) :
            /\ npz_size_list = l
            /\ rand_idx = r
            /\ num_idx = Len(r)
       \/ \E inp \in LongInputs :
            /\ npz_size_list = inp[1]
            /\ rand_idx = inp[2]
            /\ num_idx = inp[3]
    /\ pos = 0
    /\ bpc = "for"
    /\ cur_idx = -1
    /\ cur_npz = <<>>
    /\ assigned = FALSE
    /\ im_arr = <<>>
    /\ lbl_arr = <<>>
    /\ save_idx = 1
    /\ saved = <<>>

\* lines 32-43 with lines 42-43 outside the if: the buffers are reset in
\* every iteration
FlushMutant(ims, lbls) ==
    IF SaveDue(Len(ims))
    THEN [written |-> <<[name |-> save_idx, X_train |-> ims, y_train |-> lbls]>>,
          ims |-> <<>>, lbls |-> <<>>]
    ELSE [written |-> <<>>, ims |-> <<>>, lbls |-> <<>>]

\* lines 32-43 applied to the buffers after the append: the archive written
\* (<<>> when none is) and the buffers the iteration leaves
Flush(ims, lbls) ==
    IF SaveDue(Len(ims))
    THEN [written |-> <<[name |-> save_idx, X_train |-> ims, y_train |-> lbls]>>,
          ims |-> <<>>, lbls |-> <<>>]
    ELSE [written |-> <<>>, ims |-> ims, lbls |-> lbls]

\* lines 8-43: one pass of the loop body. Lines 10-27 bind cur_npz_file and
\* cur_npz_idx when a branch assigns and leave them as they were otherwise;
\* line 29 raises NameError when they were never bound and IndexError when
\* the offset is outside the archive (numpy wraps a negative offset once).
Iterate ==
    /\ bpc = "for"
    /\ pos < num_idx
    /\ pos' = pos + 1
    /\ LET g == RandIdxAt(pos)
           r == RemapBranches(npz_size_list, g)
           cur == IF r # <<>> THEN r ELSE cur_npz
       IN /\ cur_idx' = g
          /\ assigned' = (r # <<>>)
          /\ cur_npz' = cur
          /\ IF cur = <<>>
             THEN /\ bpc' = "NameError"
                  /\ UNCHANGED <<im_arr, lbl_arr, save_idx, saved>>
             ELSE LET cur_npz_file == cur[1]
                      cur_npz_idx == cur[2]
                      size == npz_size_list[cur_npz_file + 1]
                  IN IF cur_npz_idx >= size \/ cur_npz_idx < 0 - size
                     THEN /\ bpc' = "IndexError"
                          /\ UNCHANGED <<im_arr, lbl_arr, save_idx, saved>>
                     ELSE LET img == <<cur_npz_file,
                                       IF cur_npz_idx < 0 THEN cur_npz_idx + size
                                                          ELSE cur_npz_idx>>
                              f == Flush(Append(im_arr, img),
                                         Append(lbl_arr, Label(cur_npz_file)))
                          IN /\ im_arr' = f.ims
                             /\ lbl_arr' = f.lbls
                             /\ saved' = saved \o f.written
                             /\ save_idx' = save_idx + Len(f.written)
                             /\ bpc' = "for"
    /\ UNCHANGED <<npz_size_list, rand_idx, num_idx>>

\* line 8: the index list is exhausted
EndFor ==
    /\ bpc = "for"
    /\ pos = num_idx
    /\ bpc' = "done"
    /\ UNCHANGED <<npz_size_list, rand_idx, num_idx, pos, cur_idx, cur_npz,
                   assigned, im_arr, lbl_arr, save_idx, saved>>

(***************************************************************************)
(* train.py: main_worker                                                   *)
(*                                                                         *)
(* train, validate (through the model's weights), adjust_learning_rate,    *)
(* scheduler.step, save_config, json.dump and save_checkpoint are recorded *)
(* in calls as [op, epoch, arg].  The optional extras of the epoch loop    *)
(* (args.compute_jacobian, args.track_weights, args.scale_weights) are     *)
(* off.                                                                    *)
(***************************************************************************)
\* Weights, told apart by the top-1 accuracy they give on each loader.
Pretrained == [train |-> 0, test |-> 0, subset |-> 0]
Models == {[train |-> 100, test |-> 50, subset |-> 0],
           [train |-> 50, test |-> 100, subset |-> 50]}

Max(a, b) == IF a >= b THEN a ELSE b

Call(op, e, arg) == [op |-> op, epoch |-> e, arg |-> arg]

\* lines 460-525 as main_worker sees them: the pair (top1.avg, top5.avg).
\* Both meters are fed accuracy(output, target, topk=(1, 1)) (lines 499-502),
\* so both are the top-1 accuracy of the weights on the loader. With
\* args.track_correct the function returns None (line 523): <<>>.
ValidateResult(loader) ==
    IF args.track_correct THEN <<>> ELSE <<model[loader], model[loader]>>

\* line 294
AdjustDueMutant(e) == e < args.max_lr_adjusting_epoch
AdjustDue(e) == (e < args.max_lr_adjusting_epoch) /\ (~args.schedule_lr)

\* line 315
SubsetDue == args.sub_file \/ args.mix_cifar

\* line 293: range(args.start_epoch, args.epochs), iterated after epoch e
\* (e = -1: not yet entered); -1 when the range is exhausted
NextEpochMutant(e) ==
    LET n == IF e = -1 THEN args.start_epoch ELSE e + 1
    IN IF n <= args.epochs THEN n ELSE -1
NextEpoch(e) ==
    LET n == IF e = -1 THEN args.start_epoch ELSE e + 1
    IN IF n < args.epochs THEN n ELSE -1

\* line 261
EvaluateDueMutant == FALSE
EvaluateDue == args.evaluate

\* dict.update
UpdateMutant(d, k, v) == (k :> v)
Update(d, k, v) == (k :> v) @@ d

\* line 363
IsBestMutant(a, best) == a >= best
IsBest(a, best) == a > best

\* lines 367-371: the state handed to save_checkpoint
CheckpointStateMutant(e) == [epoch |-> e, state_dict |-> model, best_acc1 |-> best_acc1]
CheckpointState(e) == [epoch |-> e + 1, state_dict |-> model, best_acc1 |-> best_acc1]

\* train_utils.save_checkpoint(state, is_best): what the checkpoint file
\* holds after the call, the file args.resume names
save_checkpoint(state, is_best) == <<state>>

\* The parser has no start_epoch option (lines 560-630): args has the
\* attribute only when the config file gives it (line 641) or the resume
\* branch sets it (line 119); -1 stands for an args without it.  resume
\* stands for args.resume naming a path (the default does).
ArgSets ==
    [evaluate : BOOLEAN, resume : BOOLEAN, start_epoch : -1..MaxEpochs,
     epochs : 0..MaxEpochs, schedule_lr : BOOLEAN,
     max_lr_adjusting_epoch : 0..MaxEpochs, sub_file : BOOLEAN,
     mix_cifar : BOOLEAN, track_correct : BOOLEAN]

\* a fresh process: the module is loaded (line 38) and main_worker is entered
ProcessStart ==
    /\ tpc = "start"
    /\ best_acc1 = 0
    /\ model = Pretrained
    /\ scheduler = FALSE
    /\ val_loader2 = FALSE
    /\ epoch = -1
    /\ epoch_log = <<>>
    /\ train_log = <<>>
    /\ acc1 = 0
    /\ log_file = <<>>
    /\ calls = <<>>
    /\ best_at_start = 0

TrainStart ==
    /\ argv \in ArgSets
    /\ args = argv
    /\ run = 1
    /\ ckpt_file = <<>>
    /\ trained = <<>>
    /\ ckpt_trained = <<>>
    /\ ProcessStart

\* lines 42-259: model and optimizer, scheduler (110-112), resume (115-129),
\* datasets and loaders. With args.mix_cifar line 241 reads train_sampler,
\* which is bound only at line 244: UnboundLocalError.
Setup ==
    /\ tpc = "start"
    /\ scheduler' = args.schedule_lr
    /\ IF args.resume /\ ckpt_file # <<>>
       THEN /\ args' = [args EXCEPT !.start_epoch = ckpt_file[1].epoch]
            /\ best_acc1' = ckpt_file[1].best_acc1
            /\ model' = ckpt_file[1].state_dict
            /\ trained' = ckpt_trained
       ELSE /\ UNCHANGED <<args, best_acc1, model>>
            /\ trained' = <<>>
    /\ IF args.mix_cifar
       THEN /\ tpc' = "UnboundLocalError"
            /\ UNCHANGED val_loader2
       ELSE /\ tpc' = "evaluate?"
            /\ val_loader2' = args.sub_file
    /\ UNCHANGED <<argv, run, epoch, epoch_log, train_log, acc1, log_file,
                   ckpt_file, calls, ckpt_trained, best_at_start>>

\* lines 261-263; with args.track_correct validate ends at lines 518-523,
\* where line 519 raises ValueError unless str(args.outpath) has one dot
Evaluate ==
    /\ tpc = "evaluate?"
    /\ EvaluateDue
    /\ calls' = Append(calls, Call("validate", -1, "test"))
    /\ tpc' \in (IF args.track_correct THEN {"done", "ValueError"} ELSE {"done"})
    /\ UNCHANGED <<argv, args, run, best_acc1, model, scheduler, val_loader2, epoch,
                   epoch_log, train_log, acc1, log_file, ckpt_file, trained,
                   ckpt_trained, best_at_start>>

\* lines 265-291
BeginTraining ==
    /\ tpc = "evaluate?"
    /\ ~EvaluateDue
    /\ calls' = Append(calls, Call("save_config", -1, ""))
    /\ train_log' = <<>>
    /\ best_at_start' = best_acc1
    /\ tpc' = "for"
    /\ UNCHANGED <<argv, args, run, best_acc1, model, scheduler, val_loader2, epoch,
                   epoch_log, acc1, log_file, ckpt_file, trained, ckpt_trained>>

\* line 293; reading args.start_epoch of an args without it raises
\* AttributeError
ForEpoch ==
    /\ tpc = "for"
    /\ IF epoch = -1 /\ args.start_epoch = -1
       THEN /\ tpc' = "AttributeError"
            /\ UNCHANGED epoch
       ELSE IF NextEpoch(epoch) = -1
            THEN /\ tpc' = "done"
                 /\ UNCHANGED epoch
            ELSE /\ tpc' = "adjust"
                 /\ epoch' = NextEpoch(epoch)
    /\ UNCHANGED <<argv, args, run, best_acc1, model, scheduler, val_loader2, epoch_log,
                   train_log, acc1, log_file, ckpt_file, calls, trained,
                   ckpt_trained, best_at_start>>

\* lines 294-295
AdjustLearningRate ==
    /\ tpc = "adjust"
    /\ calls' = IF AdjustDue(epoch)
                THEN Append(calls, Call("adjust_learning_rate", epoch, ""))
                ELSE calls
    /\ tpc' = "train"
    /\ UNCHANGED <<argv, args, run, best_acc1, model, scheduler, val_loader2, epoch,
                   epoch_log, train_log, acc1, log_file, ckpt_file, trained,
                   ckpt_trained, best_at_start>>

\* lines 298-300: the training pass leaves some weights; epoch_log starts
Train ==
    /\ tpc = "train"
    /\ \E m \in Models : model' = m
    /\ calls' = Append(calls, Call("train", epoch, ""))
    /\ trained' = Append(trained, epoch)
    /\ epoch_log' = [epoch |-> epoch]
    /\ tpc' = "scheduler"
    /\ UNCHANGED <<argv, args, run, best_acc1, scheduler, val_loader2, epoch, train_log,
                   acc1, log_file, ckpt_file, ckpt_trained, best_at_start>>

\* lines 303-304
SchedulerStep ==
    /\ tpc = "scheduler"
    /\ IF args.schedule_lr
       THEN IF scheduler
            THEN /\ calls' = Append(calls, Call("scheduler.step", epoch, ""))
                 /\ tpc' = "validate_train"
            ELSE /\ tpc' = "NameError"
                 /\ UNCHANGED calls
       ELSE /\ tpc' = "validate_train"
            /\ UNCHANGED calls
    /\ UNCHANGED <<argv, args, run, best_acc1, model, scheduler, val_loader2, epoch,
                   epoch_log, train_log, acc1, log_file, ckpt_file, trained,
                   ckpt_trained, best_at_start>>

\* lines 307-309; unpacking None raises TypeError, unless validate has
\* raised ValueError at line 519
ValidateTrain ==
    /\ tpc = "validate_train"
    /\ calls' = Append(calls, Call("validate", epoch, "train"))
    /\ LET r == ValidateResult("train")
       IN IF r = <<>>
          THEN /\ tpc' \in {"TypeError", "ValueError"}
               /\ UNCHANGED epoch_log
          ELSE /\ epoch_log' = Update(epoch_log, "train", [acc1 |-> r[1], acc5 |-> r[2]])
               /\ tpc' = "validate_test"
    /\ UNCHANGED <<argv, args, run, best_acc1, model, scheduler, val_loader2, epoch,
                   train_log, acc1, log_file, ckpt_file, trained, ckpt_trained,
                   best_at_start>>

\* lines 311-313
ValidateTest ==
    /\ tpc = "validate_test"
    /\ calls' = Append(calls, Call("validate", epoch, "test"))
    /\ LET r == ValidateResult("test")
       IN IF r = <<>>
          THEN /\ tpc' \in {"TypeError", "ValueError"}
               /\ UNCHANGED <<epoch_log, acc1>>
          ELSE /\ acc1' = r[1]
               /\ epoch_log' = Update(epoch_log, "test", [acc1 |-> r[1], acc5 |-> r[2]])
               /\ tpc' = "validate_subset"
    /\ UNCHANGED <<argv, args, run, best_acc1, model, scheduler, val_loader2, epoch,
                   train_log, log_file, ckpt_file, trained, ckpt_trained,
                   best_at_start>>

\* lines 315-318
ValidateSubset ==
    /\ tpc = "validate_subset"
    /\ IF SubsetDue
       THEN IF val_loader2
            THEN /\ calls' = Append(calls, Call("validate", epoch, "subset"))
                 /\ LET r == ValidateResult("subset")
                    IN IF r = <<>>
                       THEN /\ tpc' \in {"TypeError", "ValueError"}
                            /\ UNCHANGED epoch_log
                       ELSE /\ epoch_log' = Update(epoch_log, "subset",
                                                   [acc1 |-> r[1], acc5 |-> r[2]])
                            /\ tpc' = "log"
            ELSE /\ tpc' = "NameError"
                 /\ UNCHANGED <<calls, epoch_log>>
       ELSE /\ tpc' = "log"
            /\ UNCHANGED <<calls, epoch_log>>
    /\ UNCHANGED <<argv, args, run, best_acc1, model, scheduler, val_loader2, epoch,
                   train_log, acc1, log_file, ckpt_file, trained, ckpt_trained,
                   best_at_start>>

\* lines 358-360
WriteLog ==
    /\ tpc = "log"
    /\ train_log' = Append(train_log, epoch_log)
    /\ log_file' = train_log'
    /\ calls' = Append(calls, Call("json.dump", epoch, ""))
    /\ tpc' = "checkpoint"
    /\ UNCHANGED <<argv, args, run, best_acc1, model, scheduler, val_loader2, epoch,
                   epoch_log, acc1, ckpt_file, trained, ckpt_trained, best_at_start>>

\* lines 363-373
SaveCheckpoint ==
    /\ tpc = "checkpoint"
    /\ best_acc1' = Max(acc1, best_acc1)
    /\ calls' = Append(calls, Call("save_checkpoint", epoch,
                                   IF IsBest(acc1, best_acc1) THEN "is_best" ELSE "not_best"))
    /\ ckpt_file' = save_checkpoint([CheckpointState(epoch) EXCEPT !.best_acc1 = best_acc1'],
                                    IsBest(acc1, best_acc1))
    /\ ckpt_trained' = trained
    /\ tpc' = "for"
    /\ UNCHANGED <<argv, args, run, model, scheduler, val_loader2, epoch, epoch_log,
                   train_log, acc1, log_file, trained, best_at_start>>

\* The process is stopped, wherever it is, and the same command is started
\* again: a new process and a new output directory (line 666); the checkpoint
\* file stays.
Restart ==
    /\ run < MaxRuns
    /\ tpc # "start"
    /\ run' = run + 1
    /\ args' = argv
    /\ tpc' = "start"
    /\ best_acc1' = 0
    /\ model' = Pretrained
    /\ scheduler' = FALSE
    /\ val_loader2' = FALSE
    /\ epoch' = -1
    /\ epoch_log' = <<>>
    /\ train_log' = <<>>
    /\ acc1' = 0
    /\ log_file' = <<>>
    /\ calls' = <<>>
    /\ best_at_start' = 0
    /\ UNCHANGED <<argv, ckpt_file, trained, ckpt_trained>>

(***************************************************************************)
(* train.py: _parse_args (lines 556-644)                                   *)
(*                                                                         *)
(* argparse is modelled on the arguments it is used with here: optionals   *)
(* that take one value or none, no positionals, no abbreviations.  Of the  *)
(* parser's arguments --epochs (int) and --schedule-lr (store_true) stand  *)
(* for the rest.                                                           *)
(***************************************************************************)
Empty == [x \in {} |-> 0]

\* lines 556-558
ConfigOptions ==
    [o \in {"-c", "--config"} |-> [dest |-> "config", kind |-> "str"]]
ConfigDefaults == [config |-> ""]

\* lines 560-630
ParserOptions ==
    ("--epochs" :> [dest |-> "epochs", kind |-> "int"]) @@
    ("--schedule-lr" :> [dest |-> "schedule_lr", kind |-> "store_true"])
ParserDefaults == [epochs |-> 90, schedule_lr |-> FALSE]

\* argument strings that start with '-'
OptionLike == {"-c", "--config", "--epochs", "--schedule-lr"}

\* int(): the strings that are integers, with their values
IntOf == ("5" :> 5)

\* type conversion of an option's argument string; <<>> on ValueError
GetValue(kind, str) ==
    IF kind = "int"
    THEN IF str \in DOMAIN IntOf THEN <<IntOf[str]>> ELSE <<>>
    ELSE <<str>>

RECURSIVE ConsumeArgs(_, _, _, _, _)
\* ArgumentParser._parse_known_args: the namespace and the extras, or an error
ConsumeArgs(options, tokens, i, ns, extras) ==
    IF i > Len(tokens) THEN [error |-> FALSE, ns |-> ns, extras |-> extras]
    ELSE LET t == tokens[i]
         IN IF t \in DOMAIN options
            THEN LET o == options[t]
                 IN IF o.kind = "store_true"
                    THEN ConsumeArgs(options, tokens, i + 1, (o.dest :> TRUE) @@ ns, extras)
                    ELSE IF i + 1 > Len(tokens) \/ tokens[i + 1] \in OptionLike
                         THEN [error |-> TRUE, ns |-> ns, extras |-> extras]
                         ELSE LET v == GetValue(o.kind, tokens[i + 1])
                              IN IF v = <<>>
                                 THEN [error |-> TRUE, ns |-> ns, extras |-> extras]
                                 ELSE ConsumeArgs(options, tokens, i + 2,
                                                  (o.dest :> v[1]) @@ ns, extras)
            ELSE ConsumeArgs(options, tokens, i + 1, ns, Append(extras, t))

\* parse_known_args: the namespace starts from the defaults
ParseKnownArgs(options, dflt, tokens) == ConsumeArgs(options, tokens, 1, dflt, <<>>)

\* parse_args: unrecognized arguments are an error
ParseArgs(options, dflt, tokens) ==
    LET r == ParseKnownArgs(options, dflt, tokens)
    IN IF r.extras # <<>> THEN [r EXCEPT !.error = TRUE] ELSE r

\* parser.set_defaults(**cfg) (line 639)
SetDefaultsMutant(dflt, cfg) == dflt @@ cfg
SetDefaults(dflt, cfg) == cfg @@ dflt

\* the files open() finds (line 637)
ConfigFiles == {"cfg.json"}

Tokens == {"-c", "cfg.json", "--epochs", "5", "--schedule-lr"}

CommandLines == UNION {[1..n -> Tokens] : n \in 0..MaxArgs}

\* contents of cfg.json: any of epochs, schedule_lr and start_epoch, set or not
ConfigContents ==
    {e @@ f @@ g : e \in {Empty, [epochs |-> 3]},
                   f \in {Empty, [schedule_lr |-> TRUE], [schedule_lr |-> FALSE]},
                   g \in {Empty, [start_epoch |-> 1]}}

ArgsStart ==
    /\ sys_argv \in CommandLines
    /\ cfg_file \in ConfigContents
    /\ apc = "config_parser"
    /\ args_config = ConfigDefaults
    /\ remaining = <<>>
    /\ defaults = ParserDefaults
    /\ parsed = Empty

\* line 635
ParseConfigArgs ==
    /\ apc = "config_parser"
    /\ LET r == ParseKnownArgs(ConfigOptions, ConfigDefaults, sys_argv)
       IN IF r.error
          THEN /\ apc' = "SystemExit"
               /\ UNCHANGED <<args_config, remaining>>
          ELSE /\ args_config' = r.ns
               /\ remaining' = r.extras
               /\ apc' = "config?"
    /\ UNCHANGED <<sys_argv, cfg_file, defaults, parsed>>

\* lines 636-639
LoadConfig ==
    /\ apc = "config?"
    /\ IF args_config.config # ""
       THEN IF args_config.config \in ConfigFiles
            THEN /\ defaults' = SetDefaults(defaults, cfg_file)
                 /\ apc' = "parser"
            ELSE /\ apc' = "FileNotFoundError"
                 /\ UNCHANGED defaults
       ELSE /\ apc' = "parser"
            /\ UNCHANGED defaults
    /\ UNCHANGED <<sys_argv, cfg_file, args_config, remaining, parsed>>

\* lines 643-644
ParseRemaining ==
    /\ apc = "parser"
    /\ LET r == ParseArgs(ParserOptions, defaults, remaining)
       IN IF r.error
          THEN /\ apc' = "SystemExit"
               /\ UNCHANGED parsed
          ELSE /\ parsed' = r.ns
               /\ apc' = "done"
    /\ UNCHANGED <<sys_argv, cfg_file, args_config, remaining, defaults>>

(***************************************************************************)
(* train.py: validate (lines 460-525) and accuracy (lines 528-546)         *)
(*                                                                         *)
(* A sample is [output, target]: the row of class scores the network gives *)
(* it and its label.  A percentage is kept as the fraction [num, den].     *)
(***************************************************************************)
Classes == 0..(NumClasses - 1)

RECURSIVE TopK(_, _, _)
\* output.topk(k, 1, True, True) for one row: the k classes with the largest
\* scores, largest first; taken are the classes already picked
TopK(row, k, taken) ==
    IF k = 0 \/ taken = DOMAIN row THEN <<>>
    ELSE LET best == CHOOSE c \in DOMAIN row \ taken :
                        \A d \in DOMAIN row \ taken :
                            row[c] > row[d] \/ (row[c] = row[d] /\ c <= d)
         IN <<best>> \o TopK(row, k - 1, taken \cup {best})

SetMax(S) == CHOOSE x \in S : \A y \in S : x >= y

\* lines 531-536: correct[j][s], row j of pred against the target of sample s
Correct(batch, maxk) ==
    [j \in 1..maxk |->
        [s \in 1..Len(batch) |-> TopK(batch[s].output, maxk, {})[j] = batch[s].target]]

\* correct[:k].view(-1).float().sum(0)
CorrectK(correct, k, n) ==
    Cardinality({<<j, s>> \in (1..k) \X (1..n) : correct[j][s]})

\* lines 542-546: one percentage for each k of topk
Accuracy(batch, topk) ==
    LET maxk == SetMax({topk[i] : i \in 1..Len(topk)})
        batch_size == Len(batch)
        correct == Correct(batch, maxk)
    IN [i \in 1..Len(topk) |->
            [num |-> 100 * CorrectK(correct, topk[i], batch_size), den |-> batch_size]]

\* lines 538-540: accuracy(..., track=True)
AccuracyTrack(batch, topk) ==
    LET maxk == SetMax({topk[i] : i \in 1..Len(topk)})
    IN Correct(batch, maxk)[1]

\* line 499: the k values validate asks accuracy for
ValidateTopK == <<1, 1>>

\* AverageMeter of train_utils: update(val, n) adds val * n to sum and n to
\* count; avg is sum / count
MeterUpdate(m, val, n) ==
    [sum |-> m.sum + (val.num * n) \div val.den, count |-> m.count + n]
MeterAvg(m) == [num |-> m.sum, den |-> m.count]

\* score rows: the scores fall, or rise, with the class number
Falling == [c \in Classes |-> NumClasses - c]
Rising == [c \in Classes |-> c]

\* a sample whose target has the best score, one whose target has the second
\* best, one whose target has the worst
Samples == {[output |-> Falling, target |-> 0],
            [output |-> Falling, target |-> 1],
            [output |-> Rising, target |-> 0]}

BatchesOf(n) == [1..n -> Samples]

\* DataLoader: full batches of batch_size, the last one may be smaller
Loaders(batch_size) ==
    {l \in UNION {[1..k -> UNION {BatchesOf(n) : n \in 1..batch_size}] : k \in 1..MaxBatches} :
        \A b \in 1..(Len(l) - 1) : Len(l[b]) = batch_size}

ValidateStart ==
    /\ \E bs \in 1..MaxBatchSize, tc \in BOOLEAN :
        /\ vargs = [batch_size |-> bs, track_correct |-> tc]
        /\ val_loader \in Loaders(bs)
    /\ vpc = "validate"
    /\ vi = 0
    /\ top1 = [sum |-> 0, count |-> 0]
    /\ top5 = [sum |-> 0, count |-> 0]
    /\ corr_dict = <<>>
    /\ vresult = <<>>

\* lines 461-472
ValidateEnter ==
    /\ vpc = "validate"
    /\ top1' = [sum |-> 0, count |-> 0]
    /\ top5' = [sum |-> 0, count |-> 0]
    /\ corr_dict' = <<>>
    /\ vi' = 0
    /\ vpc' = "for"
    /\ UNCHANGED <<val_loader, vargs, vresult>>

\* lines 474-515: one batch
ValidateBatch ==
    /\ vpc = "for"
    /\ vi < Len(val_loader)
    /\ LET batch == val_loader[vi + 1]
           acc == Accuracy(batch, ValidateTopK)
           correct == AccuracyTrack(batch, ValidateTopK)
       IN /\ corr_dict' =
                IF vargs.track_correct
                THEN corr_dict \o
                     SelectSeq([idx \in 1..Len(batch) |->
                                    IF correct[idx]
                                    THEN <<(vi * vargs.batch_size) + (idx - 1)>>
                                    ELSE <<>>],
                               LAMBDA x : x # <<>>)
                ELSE corr_dict
          /\ top1' = MeterUpdate(top1, acc[1], Len(batch))
          /\ top5' = MeterUpdate(top5, acc[2], Len(batch))
    /\ vi' = vi + 1
    /\ UNCHANGED <<val_loader, vargs, vpc, vresult>>

\* lines 517-525; line 519 raises ValueError unless str(args.outpath) has
\* one dot
ValidateReturn ==
    /\ vpc = "for"
    /\ vi = Len(val_loader)
    /\ IF vargs.track_correct
       THEN /\ vresult' = <<>>
            /\ vpc' \in {"returned", "ValueError"}
       ELSE /\ vresult' = <<MeterAvg(top1), MeterAvg(top5)>>
            /\ vpc' = "returned"
    /\ UNCHANGED <<val_loader, vargs, vi, top1, top5, corr_dict>>

(***************************************************************************)
(* train.py: main_worker, class selection (lines 173-192)                  *)
(*                                                                         *)
(* A dataset is the sequence of the classes of its samples, in the order   *)
(* of train_dataset.samples; ImageFolder lists the samples class by class  *)
(* and sets targets to the classes.  samples and targets are indexed as    *)
(* arrays (lines 180-183).                                                 *)
(***************************************************************************)
\* the class directories of the dataset folders
DataClasses == 0..2

\* datasets.ImageFolder: up to MaxData samples, sorted by class
Datasets ==
    UNION {{d \in [1..n -> DataClasses] : \A i \in 1..(n - 1) : d[i] <= d[i + 1]} :
                n \in 1..MaxData}

\* lists of distinct class ids, in any order
SelectLists ==
    UNION {{l \in [1..n -> DataClasses] : \A i, j \in 1..n : l[i] = l[j] => i = j} :
                n \in 1..Cardinality(DataClasses)}

\* lines 178, 187: [i for i, t in enumerate(targets) if t == lbl], 1-based here
LblIdx(targets, lbl) == {i \in 1..Len(targets) : targets[i] = lbl}

\* random.sample(population, k): k distinct members in any order
RandomSample(population, k) ==
    {f \in [1..k -> population] : \A i, j \in 1..k : f[i] = f[j] => i = j}

\* line 179: the sample size asked for
SampleSize(targets, lbl) ==
    IF train_size # 0 THEN train_size ELSE Cardinality(LblIdx(targets, lbl))

RECURSIVE TrainSelIdx(_, _, _)
\* lines 176-179: the values sel_idx can have after the first n labels of list
TrainSelIdx(targets, list, n) ==
    IF n = 0 THEN {<<>>}
    ELSE {a \o b : a \in TrainSelIdx(targets, list, n - 1),
                   b \in RandomSample(LblIdx(targets, list[n]),
                                      SampleSize(targets, list[n]))}

RECURSIVE SortedSeq(_)
\* the members of a set of numbers in ascending order
SortedSeq(S) ==
    IF S = {} THEN <<>>
    ELSE LET m == CHOOSE x \in S : \A y \in S : x <= y
         IN <<m>> \o SortedSeq(S \ {m})

RECURSIVE TestSelIdx(_, _, _)
\* lines 185-188
TestSelIdx(targets, list, n) ==
    IF n = 0 THEN <<>>
    ELSE TestSelIdx(targets, list, n - 1) \o SortedSeq(LblIdx(targets, list[n]))

\* a[sel_idx]
Take(a, sel_idx) == [i \in 1..Len(sel_idx) |-> a[sel_idx[i]]]

RECURSIVE Relabel(_, _, _)
\* lines 182-183, 191-192: the first n passes of
\* for cur_idx, cur_cls in enumerate(list): targets[targets == cur_cls] = cur_idx
Relabel(targets, list, n) ==
    IF n = 0 THEN targets
    ELSE LET t == Relabel(targets, list, n - 1)
         IN [i \in 1..Len(t) |-> IF t[i] = list[n] THEN n - 1 ELSE t[i]]

SelectStart ==
    /\ select_class_list \in SelectLists \cup {<<>>}
    /\ train_size \in 0..MaxTrainSize
    /\ num_classes \in (IF select_class_list = <<>>
                        THEN 1..Cardinality(DataClasses)
                        ELSE {Len(select_class_list)})
    /\ inject_noise = [num |-> 0, den |-> 1]
    /\ train_samples \in Datasets
    /\ train_targets = train_samples
    /\ test_samples \in Datasets
    /\ test_targets = test_samples
    /\ noisy_labels = <<>>
    /\ ni = 0
    /\ dpc = "select_train"

\* lines 173-181; random.sample raises ValueError when asked for more than
\* the population holds
SelectTrain ==
    /\ dpc = "select_train"
    /\ IF train_size # 0 \/ select_class_list # <<>>
       THEN LET list == IF select_class_list = <<>>
                        THEN [i \in 1..num_classes |-> i - 1]
                        ELSE select_class_list
            IN /\ select_class_list' = list
               /\ IF \E n \in 1..Len(list) :
                        SampleSize(train_targets, list[n]) >
                            Cardinality(LblIdx(train_targets, list[n]))
                  THEN /\ dpc' = "ValueError"
                       /\ UNCHANGED <<train_samples, train_targets>>
                  ELSE \E sel_idx \in TrainSelIdx(train_targets, list, Len(list)) :
                        /\ train_samples' = Take(train_samples, sel_idx)
                        /\ train_targets' = Take(train_targets, sel_idx)
                        /\ dpc' = "relabel_train"
       ELSE /\ dpc' = "done"
            /\ UNCHANGED <<select_class_list, train_samples, train_targets>>
    /\ UNCHANGED <<train_size, num_classes, inject_noise, test_samples, test_targets,
                   noisy_labels, ni>>

\* lines 182-183
RelabelTrain ==
    /\ dpc = "relabel_train"
    /\ train_targets' = Relabel(train_targets, select_class_list, Len(select_class_list))
    /\ dpc' = "select_test"
    /\ UNCHANGED <<select_class_list, train_size, num_classes, inject_noise,
                   train_samples, test_samples, test_targets, noisy_labels, ni>>

\* lines 185-190
SelectTest ==
    /\ dpc = "select_test"
    /\ LET sel_idx == TestSelIdx(test_targets, select_class_list, Len(select_class_list))
       IN /\ test_samples' = Take(test_samples, sel_idx)
          /\ test_targets' = Take(test_targets, sel_idx)
    /\ dpc' = "relabel_test"
    /\ UNCHANGED <<select_class_list, train_size, num_classes, inject_noise,
                   train_samples, train_targets, noisy_labels, ni>>

\* lines 191-192
RelabelTest ==
    /\ dpc = "relabel_test"
    /\ test_targets' = Relabel(test_targets, select_class_list, Len(select_class_list))
    /\ dpc' = "done"
    /\ UNCHANGED <<select_class_list, train_size, num_classes, inject_noise,
                   train_samples, train_targets, test_samples, noisy_labels, ni>>

(***************************************************************************)
(* train.py: main_worker, label noise (lines 195-208)                      *)
(***************************************************************************)
\* seq[a:b] of Python, a and b 0-based and possibly negative
Slice(seq, a, b) ==
    LET n == Len(seq)
        lo == IF a < 0 THEN Max(a + n, 0) ELSE IF a > n THEN n ELSE a
        hi == IF b < 0 THEN Max(b + n, 0) ELSE IF b > n THEN n ELSE b
    IN IF lo < hi THEN SubSeq(seq, lo + 1, hi) ELSE <<>>

\* line 197
ImPerClass == Len(train_targets) \div num_classes

\* line 199: int(im_per_class * args.inject_noise)
NumShuffle == (ImPerClass * inject_noise.num) \div inject_noise.den

\* line 206: how many entries of the class keep its label, with the factor
\* num_classes - 1
KeepCountMutant == ImPerClass - (num_classes - 1) * NumShuffle
KeepCount == ImPerClass - num_classes * NumShuffle

RECURSIVE NoisyParts(_, _)
\* lines 204-205: noisy_idx after the first n values of r
NoisyParts(shuffled_idx, n) ==
    IF n = 0 THEN <<>>
    ELSE LET r == n - 1
             part == Slice(shuffled_idx, ImPerClass - (r + 1) * NumShuffle,
                           ImPerClass - r * NumShuffle)
         IN NoisyParts(shuffled_idx, n - 1) \o [k \in 1..Len(part) |-> r]

\* lines 201-206: noisy_idx for class i
NoisyIdx(shuffled_idx, i) ==
    LET keep == Slice(shuffled_idx, 0, KeepCount)
    IN NoisyParts(shuffled_idx, num_classes) \o [k \in 1..Len(keep) |-> i]

\* training sets with per samples of each of c classes: class by class,
\* classes in turn, class by class from the last
Balanced(c, per) ==
    {[k \in 1..(c * per) |-> (k - 1) \div per],
     [k \in 1..(c * per) |-> (k - 1) % c],
     [k \in 1..(c * per) |-> c - 1 - ((k - 1) \div per)]}

NoiseStart ==
    /\ num_classes \in 1..MaxNoiseClasses
    /\ inject_noise \in [num : 0..4, den : {4}]
    /\ \E per \in 1..MaxPerClass : train_samples \in Balanced(num_classes, per)
    /\ train_targets = train_samples
    /\ select_class_list = <<>>
    /\ train_size = 0
    /\ test_samples = <<>>
    /\ test_targets = <<>>
    /\ noisy_labels = <<>>
    /\ ni = 0
    /\ dpc = "inject_noise?"

\* lines 196-199
NoiseEnter ==
    /\ dpc = "inject_noise?"
    /\ IF inject_noise.num # 0
       THEN /\ noisy_labels' = [k \in 1..Len(train_targets) |-> 0]
            /\ dpc' = "for"
       ELSE /\ dpc' = "done"
            /\ UNCHANGED noisy_labels
    /\ UNCHANGED <<select_class_list, train_size, num_classes, inject_noise,
                   train_samples, train_targets, test_samples, test_targets, ni>>

\* lines 200-207: one class; class_idx is the cur_idx of line 202. The assignment through the index list needs as
\* many values as indices, or one value; numpy raises ValueError otherwise.
NoiseClass ==
    /\ dpc = "for"
    /\ ni < num_classes
    /\ LET class_idx == SortedSeq(LblIdx(train_targets, ni))
       IN \E shuffled_idx \in RandomSample(LblIdx(train_targets, ni), Len(class_idx)) :
            LET noisy_idx == NoisyIdx(shuffled_idx, ni)
            IN IF Len(noisy_idx) = Len(class_idx) \/ Len(noisy_idx) = 1
               THEN /\ noisy_labels' =
                        [k \in 1..Len(noisy_labels) |->
                            IF \E j \in 1..Len(class_idx) : class_idx[j] = k
                            THEN LET j == CHOOSE j \in 1..Len(class_idx) : class_idx[j] = k
                                 IN IF Len(noisy_idx) = 1 THEN noisy_idx[1]
                                                         ELSE noisy_idx[j]
                            ELSE noisy_labels[k]]
                    /\ ni' = ni + 1
                    /\ dpc' = "for"
               ELSE /\ dpc' = "ValueError"
                    /\ UNCHANGED <<noisy_labels, ni>>
    /\ UNCHANGED <<select_class_list, train_size, num_classes, inject_noise,
                   train_samples, train_targets, test_samples, test_targets>>

\* line 208
NoiseFinish ==
    /\ dpc = "for"
    /\ ni = num_classes
    /\ train_targets' = noisy_labels
    /\ dpc' = "done"
    /\ UNCHANGED <<select_class_list, train_size, num_classes, inject_noise,
                   train_samples, test_samples, test_targets, noisy_labels, ni>>

(***************************************************************************)
(* Specifications                                                          *)
(***************************************************************************)
BatchIdle ==
    /\ npz_size_list = <<1>>
    /\ rand_idx = <<0>>
    /\ num_idx = 0
    /\ pos = 0
    /\ bpc = "idle"
    /\ cur_idx = -1
    /\ cur_npz = <<>>
    /\ assigned = FALSE
    /\ im_arr = <<>>
    /\ lbl_arr = <<>>
    /\ save_idx = 1
    /\ saved = <<>>

TrainIdle ==
    /\ argv = <<>>
    /\ args = <<>>
    /\ run = 0
    /\ ckpt_file = <<>>
    /\ trained = <<>>
    /\ ckpt_trained = <<>>
    /\ tpc = "idle"
    /\ best_acc1 = 0
    /\ model = Pretrained
    /\ scheduler = FALSE
    /\ val_loader2 = FALSE
    /\ epoch = -1
    /\ epoch_log = <<>>
    /\ train_log = <<>>
    /\ acc1 = 0
    /\ log_file = <<>>
    /\ calls = <<>>
    /\ best_at_start = 0

ArgsIdle ==
    /\ sys_argv = <<>>
    /\ cfg_file = Empty
    /\ apc = "idle"
    /\ args_config = ConfigDefaults
    /\ remaining = <<>>
    /\ defaults = ParserDefaults
    /\ parsed = Empty

ValidateIdle ==
    /\ val_loader = <<>>
    /\ vargs = [batch_size |-> 1, track_correct |-> FALSE]
    /\ vpc = "idle"
    /\ vi = 0
    /\ top1 = [sum |-> 0, count |-> 0]
    /\ top5 = [sum |-> 0, count |-> 0]
    /\ corr_dict = <<>>
    /\ vresult = <<>>

DataIdle ==
    /\ select_class_list = <<>>
    /\ train_size = 0
    /\ num_classes = 1
    /\ inject_noise = [num |-> 0, den |-> 1]
    /\ train_samples = <<>>
    /\ train_targets = <<>>
    /\ test_samples = <<>>
    /\ test_targets = <<>>
    /\ noisy_labels = <<>>
    /\ ni = 0
    /\ dpc = "idle"

InitBatch == BatchStart /\ TrainIdle /\ ArgsIdle /\ ValidateIdle /\ DataIdle

NextBatch ==
    \/ Iterate /\ UNCHANGED <<trainVars, argVars, valVars, dataVars>>
    \/ EndFor /\ UNCHANGED <<trainVars, argVars, valVars, dataVars>>

SpecBatch == InitBatch /\ [][NextBatch]_vars

InitTrain == TrainStart /\ BatchIdle /\ ArgsIdle /\ ValidateIdle /\ DataIdle

NextTrain ==
    \/ Setup /\ UNCHANGED <<batchVars, argVars, valVars, dataVars>>
    \/ Evaluate /\ UNCHANGED <<batchVars, argVars, valVars, dataVars>>
    \/ BeginTraining /\ UNCHANGED <<batchVars, argVars, valVars, dataVars>>
    \/ ForEpoch /\ UNCHANGED <<batchVars, argVars, valVars, dataVars>>
    \/ AdjustLearningRate /\ UNCHANGED <<batchVars, argVars, valVars, dataVars>>
    \/ Train /\ UNCHANGED <<batchVars, argVars, valVars, dataVars>>
    \/ SchedulerStep /\ UNCHANGED <<batchVars, argVars, valVars, dataVars>>
    \/ ValidateTrain /\ UNCHANGED <<batchVars, argVars, valVars, dataVars>>
    \/ ValidateTest /\ UNCHANGED <<batchVars, argVars, valVars, dataVars>>
    \/ ValidateSubset /\ UNCHANGED <<batchVars, argVars, valVars, dataVars>>
    \/ WriteLog /\ UNCHANGED <<batchVars, argVars, valVars, dataVars>>
    \/ SaveCheckpoint /\ UNCHANGED <<batchVars, argVars, valVars, dataVars>>
    \/ Restart /\ UNCHANGED <<batchVars, argVars, valVars, dataVars>>

SpecTrain == InitTrain /\ [][NextTrain]_vars

InitArgs == ArgsStart /\ BatchIdle /\ TrainIdle /\ ValidateIdle /\ DataIdle

NextArgs ==
    \/ ParseConfigArgs /\ UNCHANGED <<batchVars, trainVars, valVars, dataVars>>
    \/ LoadConfig /\ UNCHANGED <<batchVars, trainVars, valVars, dataVars>>
    \/ ParseRemaining /\ UNCHANGED <<batchVars, trainVars, valVars, dataVars>>

SpecArgs == InitArgs /\ [][NextArgs]_vars

InitValidate == ValidateStart /\ BatchIdle /\ TrainIdle /\ ArgsIdle /\ DataIdle

NextValidate ==
    \/ ValidateEnter /\ UNCHANGED <<batchVars, trainVars, argVars, dataVars>>
    \/ ValidateBatch /\ UNCHANGED <<batchVars, trainVars, argVars, dataVars>>
    \/ ValidateReturn /\ UNCHANGED <<batchVars, trainVars, argVars, dataVars>>

SpecValidate == InitValidate /\ [][NextValidate]_vars

InitSelect == SelectStart /\ BatchIdle /\ TrainIdle /\ ArgsIdle /\ ValidateIdle

NextSelect ==
    \/ SelectTrain /\ UNCHANGED <<batchVars, trainVars, argVars, valVars>>
    \/ RelabelTrain /\ UNCHANGED <<batchVars, trainVars, argVars, valVars>>
    \/ SelectTest /\ UNCHANGED <<batchVars, trainVars, argVars, valVars>>
    \/ RelabelTest /\ UNCHANGED <<batchVars, trainVars, argVars, valVars>>

SpecSelect == InitSelect /\ [][NextSelect]_vars

InitNoise == NoiseStart /\ BatchIdle /\ TrainIdle /\ ArgsIdle /\ ValidateIdle

NextNoise ==
    \/ NoiseEnter /\ UNCHANGED <<batchVars, trainVars, argVars, valVars>>
    \/ NoiseClass /\ UNCHANGED <<batchVars, trainVars, argVars, valVars>>
    \/ NoiseFinish /\ UNCHANGED <<batchVars, trainVars, argVars, valVars>>

SpecNoise == InitNoise /\ [][NextNoise]_vars

(***************************************************************************)
(* Claims about the batching loop.                                         *)
(***************************************************************************)
\* archive k (0-based) owns global index g at offset o
Owns(l, g, k, o) ==
    /\ k \in 0..(Len(l) - 1)
    /\ SumUpTo(l, k) + o = g
    /\ 0 <= o
    /\ o < l[k + 1]

\* C1: in every iteration the archive and offset used for the image load
\* (line 29) are the archive that owns cur_idx and cur_idx's position in it:
\* sum(sizes[0..k-1]) + o = g and 0 <= o < sizes[k].
C1_RemapSelectsOwner ==
    pos > 0 =>
        /\ cur_npz # <<>>
        /\ Owns(npz_size_list, cur_idx, cur_npz[1], cur_npz[2])

\* C2: every archive written holds exactly save_lim images and save_lim
\* labels; a write leaves both buffers empty; the buffers never hold more than
\* save_lim items and hold fewer than save_lim at the start of every iteration.
C2_FixedSizeBatches ==
    /\ [](/\ \A i \in 1..Len(saved) :
                /\ Len(saved[i].X_train) = save_lim
                /\ Len(saved[i].y_train) = save_lim
          /\ Len(im_arr) <= save_lim
          /\ Len(lbl_arr) <= save_lim
          /\ (bpc = "for" => Len(im_arr) < save_lim /\ Len(lbl_arr) < save_lim))
    /\ [][saved' # saved => im_arr' = <<>> /\ lbl_arr' = <<>>]_vars

\* an archive has been written and the next item waits in the buffers
C2_Witness ==
    /\ Len(saved) = 1
    /\ bpc = "for"
    /\ Len(im_arr) = 1
    /\ Len(lbl_arr) = 1

\* C11: in every iteration one of the three branches (lines 10, 14, 18-27)
\* assigns the archive and the offset, so the load at line 29 never uses
\* values of an earlier iteration or names that were never bound.
C11_RemapTotal ==
    /\ pos > 0 => assigned
    /\ bpc # "NameError"

\* C12: an offset a branch assigns lies inside the archive the branch chose,
\* 0 <= o < sizes[k]; the access at line 29 is never out of range.
C12_OffsetInBounds ==
    /\ assigned =>
        /\ cur_npz[2] >= 0
        /\ cur_npz[2] < npz_size_list[cur_npz[1] + 1]
    /\ bpc # "IndexError"

\* the search loop has assigned the middle one of three archives
C12_Witness ==
    /\ assigned
    /\ Len(npz_size_list) = 3
    /\ cur_npz[1] = 1
    /\ bpc = "for"

RECURSIVE StoredImages(_)
\* the images of the first n archives written, in order, then the buffer
StoredImages(n) ==
    IF n = 0 THEN <<>> ELSE StoredImages(n - 1) \o saved[n].X_train

Stored == StoredImages(Len(saved)) \o im_arr

\* C13: after n indices the archives written (candidate_batch_1, 2, ...)
\* followed by the buffer hold the n loaded items in the order they were
\* loaded, each once; there are n div save_lim archives, save_idx is one
\* more, and the last n mod save_lim items are in the buffer only. At the end
\* of the loop n is the number of sampled indices.
C13_Conservation ==
    /\ []((bpc \in {"for", "done"}) =>
            /\ Len(Stored) = pos
            /\ Len(saved) = pos \div save_lim
            /\ \A i \in 1..Len(saved) : saved[i].name = i
            /\ save_idx = Len(saved) + 1
            /\ Len(im_arr) = pos % save_lim
            /\ (bpc = "done" => pos = num_idx))
    /\ [][(pos' = pos + 1 /\ bpc' = "for") =>
                Stored' = Append(Stored, <<cur_npz'[1], cur_npz'[2]>>)]_vars

\* the loop has ended after save_lim + 1 indices: one archive, one item left
\* in the buffer
C13_Witness ==
    /\ bpc = "done"
    /\ pos = save_lim + 1
    /\ Len(saved) = 1
    /\ saved[1].name = 1
    /\ save_idx = 2
    /\ Len(im_arr) = 1

\* the labels lbls go with the images ims, position by position
Paired(ims, lbls) ==
    /\ Len(ims) = Len(lbls)
    /\ \A i \in 1..Len(ims) : lbls[i] = chosen_dict(ims[i][1])

\* C14: the image buffer and the label buffer have the same length in every
\* state, and in the buffers and in every archive written the i-th label is
\* the class chosen_dict gives the archive the i-th image was loaded from.
C14_Pairing ==
    /\ Paired(im_arr, lbl_arr)
    /\ \A k \in 1..Len(saved) : Paired(saved[k].X_train, saved[k].y_train)

\* an archive with images of two classes has been written and the buffers
\* hold the next item
C14_Witness ==
    /\ Len(saved) = 1
    /\ \E i \in 1..(MaxArchives * MaxSize) : saved[1].y_train[i] # saved[1].y_train[1]
    /\ Len(im_arr) = 1
    /\ lbl_arr = <<chosen_dict(im_arr[1][1])>>

(***************************************************************************)
(* Claims about main_worker.                                               *)
(***************************************************************************)
IsPrefix(a, b) == /\ Len(a) <= Len(b)
                  /\ \A i \in 1..Len(a) : a[i] = b[i]

\* the steps of an epoch a claim speaks of, as <<op, loader>>
StepOf(c) == <<c.op, IF c.op = "validate" THEN c.arg ELSE "">>

EpochSteps == <<<<"train", "">>, <<"validate", "train">>, <<"validate", "test">>,
                <<"json.dump", "">>, <<"save_checkpoint", "">>>>

IsEpochStep(c) == \E k \in 1..Len(EpochSteps) : StepOf(c) = EpochSteps[k]

LoopCalls == SelectSeq(calls, LAMBDA c : c.epoch # -1 /\ IsEpochStep(c))

EpochsToRun == Max(args.epochs - args.start_epoch, 0)

C4_ResumeContinuity ==
    /\ (calls # <<>> /\ calls[Len(calls)].op = "save_checkpoint") =>
        /\ ckpt_file # <<>>
        /\ ckpt_file[1].epoch = calls[Len(calls)].epoch + 1
        /\ ckpt_file[1].best_acc1 = best_acc1
    /\ (tpc = "evaluate?" /\ args.resume /\ ckpt_file # <<>>) =>
        /\ args.start_epoch = ckpt_file[1].epoch
        /\ best_acc1 = ckpt_file[1].best_acc1
        /\ trained = ckpt_trained
    /\ args.resume =>
        /\ \A i \in 1..Len(trained) : trained[i] = argv.start_epoch + i - 1
        /\ (tpc = "done" /\ ~args.evaluate) =>
                Len(trained) = Max(args.epochs - argv.start_epoch, 0)

\* a run resumed from the checkpoint of epoch 0 has trained epoch 1 and ended
C4_Witness ==
    /\ run = 2
    /\ tpc = "done"
    /\ args.resume
    /\ argv.start_epoch = 0
    /\ args.start_epoch = 1
    /\ trained = <<0, 1>>
    /\ best_at_start > 0

LoopEntered == \E i \in 1..Len(calls) : calls[i].op = "save_config"

\* C5: log.json holds one entry per epoch completed in this run, with epoch
\* values start_epoch, start_epoch + 1, ...; every entry has a train and a
\* test record and has a subset record exactly when sub_file or mix_cifar is
\* set; an entry once written is not changed or removed during the run.
C5_LogContents ==
    /\ [](/\ \A i \in 1..Len(log_file) :
                /\ "epoch" \in DOMAIN log_file[i]
                /\ log_file[i].epoch = args.start_epoch + i - 1
                /\ "train" \in DOMAIN log_file[i]
                /\ "test" \in DOMAIN log_file[i]
                /\ ("subset" \in DOMAIN log_file[i]) <=> (args.sub_file \/ args.mix_cifar)
          /\ (epoch # -1 /\ tpc \in {"checkpoint", "for", "done"}) =>
                Len(log_file) = epoch - args.start_epoch + 1
          /\ (epoch # -1 /\ tpc \in {"adjust", "train", "scheduler", "validate_train",
                                      "validate_test", "validate_subset", "log"}) =>
                Len(log_file) = epoch - args.start_epoch
          /\ (epoch = -1) => log_file = <<>>)
    /\ [][run' = run => IsPrefix(log_file, log_file')]_vars

\* the log of a run with a subset loader after its second epoch
C5_Witness ==
    /\ tpc = "for"
    /\ Len(log_file) = 2
    /\ args.sub_file
    /\ args.start_epoch = 0
    /\ log_file[1].test.acc1 # log_file[2].test.acc1

RECURSIVE BestOf(_, _, _)
\* max of b and the test acc1 of the first n entries of log
BestOf(b, log, n) == IF n = 0 THEN b ELSE Max(BestOf(b, log, n - 1), log[n].test.acc1)

SaveCalls == SelectSeq(calls, LAMBDA c : c.op = "save_checkpoint")

\* C6: after every epoch best_acc1 is the maximum of its value at loop start
\* and the test acc1 of the epochs completed so far; it never decreases
\* during a run; is_best is passed as true exactly when the epoch's test acc1
\* is strictly greater than the best before that epoch.
C6_BestAccuracy ==
    /\ [](/\ (LoopEntered /\ tpc \in {"for", "done"}) =>
                best_acc1 = BestOf(best_at_start, train_log, Len(train_log))
          /\ \A k \in 1..Len(SaveCalls) :
                (SaveCalls[k].arg = "is_best") <=>
                    (train_log[k].test.acc1 > BestOf(best_at_start, train_log, k - 1)))
    /\ [][run' = run => best_acc1' >= best_acc1]_vars

\* an epoch that beat the best, one that equalled a resumed best
C6_Witness ==
    /\ run = 2
    /\ best_at_start = 100
    /\ Len(SaveCalls) = 1
    /\ SaveCalls[1].arg = "not_best"
    /\ train_log[1].test.acc1 = 100
    /\ tpc = "for"

\* C8: with args.evaluate set main_worker makes one call, validate on the
\* test loader, and returns: no training pass, no scheduler step, no
\* save_config, no log.json, no checkpoint.
C8_EvaluateOnly ==
    args.evaluate =>
        /\ IsPrefix(calls, <<Call("validate", -1, "test")>>)
        /\ (tpc \in {"done", "ValueError"}) => calls = <<Call("validate", -1, "test")>>
        /\ log_file = <<>>
        /\ train_log = <<>>
        /\ ckpt_file = <<>>
        /\ trained = <<>>

C8_Witness ==
    /\ args.evaluate
    /\ tpc = "done"
    /\ calls = <<Call("validate", -1, "test")>>

\* C9: adjust_learning_rate is called, right before the training pass, exactly
\* in the epochs with epoch < max_lr_adjusting_epoch while schedule_lr is off;
\* scheduler.step is called once, right after the training pass, exactly when
\* schedule_lr is on; never both in one epoch; with schedule_lr off the
\* scheduler is not used.
C9_LearningRateSchedule ==
    /\ \A i \in 1..Len(calls) :
        /\ (calls[i].op = "train") =>
            /\ (i > 1 /\ calls[i - 1].op = "adjust_learning_rate"
                      /\ calls[i - 1].epoch = calls[i].epoch)
                 <=> (calls[i].epoch < args.max_lr_adjusting_epoch /\ ~args.schedule_lr)
            /\ (i < Len(calls)) =>
                    ((calls[i + 1].op = "scheduler.step"
                        /\ calls[i + 1].epoch = calls[i].epoch) <=> args.schedule_lr)
        /\ (calls[i].op = "adjust_learning_rate") =>
            (i < Len(calls) => calls[i + 1].op = "train" /\ calls[i + 1].epoch = calls[i].epoch)
        /\ (calls[i].op = "scheduler.step") =>
            /\ i > 1
            /\ calls[i - 1].op = "train"
            /\ calls[i - 1].epoch = calls[i].epoch
            /\ args.schedule_lr
            /\ scheduler
    /\ ~ \E i, j \in 1..Len(calls) :
            /\ calls[i].op = "adjust_learning_rate"
            /\ calls[j].op = "scheduler.step"
            /\ calls[i].epoch = calls[j].epoch
    /\ (tpc = "scheduler") => (calls[Len(calls)].op = "train")
    /\ (~args.schedule_lr) => tpc # "NameError"

\* a run whose first epoch was adjusted and whose second was not
C9_Witness ==
    /\ ~args.schedule_lr
    /\ args.max_lr_adjusting_epoch = 1
    /\ tpc = "done"
    /\ \E i \in 1..Len(calls) : calls[i].op = "adjust_learning_rate" /\ calls[i].epoch = 0
    /\ \E i \in 1..Len(calls) : calls[i].op = "train" /\ calls[i].epoch = 1

(***************************************************************************)
(* Claims about _parse_args.                                               *)
(***************************************************************************)
OnCommandLine(t) == \E i \in 1..Len(sys_argv) : sys_argv[i] = t

ConfigDefines(k) == OnCommandLine("-c") /\ k \in DOMAIN cfg_file

\* C7: a parameter has the value given on the command line if it is given
\* there, else the value the config file named by -c gives it, else the
\* parser's default; without -c the outcome is that of parsing the command
\* line with the parser alone.
C7_ConfigPrecedence ==
    /\ (apc = "done") =>
        /\ parsed.epochs =
              IF OnCommandLine("--epochs") THEN 5
              ELSE IF ConfigDefines("epochs") THEN cfg_file.epochs
              ELSE 90
        /\ parsed.schedule_lr =
              IF OnCommandLine("--schedule-lr") THEN TRUE
              ELSE IF ConfigDefines("schedule_lr") THEN cfg_file.schedule_lr
              ELSE FALSE
        /\ ("start_epoch" \in DOMAIN parsed) <=> ConfigDefines("start_epoch")
        /\ ConfigDefines("start_epoch") => parsed.start_epoch = cfg_file.start_epoch
    /\ (apc \in {"done", "SystemExit"} /\ ~OnCommandLine("-c")) =>
        LET plain == ParseArgs(ParserOptions, ParserDefaults, sys_argv)
        IN /\ (apc = "done") <=> ~plain.error
           /\ (apc = "done") => parsed = plain.ns

\* the command line beats the file for epochs, the file beats the default
\* for schedule_lr
C7_Witness ==
    /\ apc = "done"
    /\ sys_argv = <<"--epochs", "5", "-c", "cfg.json">>
    /\ cfg_file = [epochs |-> 3, schedule_lr |-> TRUE]
    /\ parsed.epochs = 5
    /\ parsed.schedule_lr

(***************************************************************************)
(* Claims about validate.                                                  *)
(***************************************************************************)
\* position of the target among the classes ordered by falling score
RankOfTarget(sample) ==
    1 + Cardinality({c \in DOMAIN sample.output :
                        sample.output[c] > sample.output[sample.target]})

AllSamples == {<<b, s>> \in (1..MaxBatches) \X (1..MaxBatchSize) :
                    b <= Len(val_loader) /\ s <= Len(val_loader[b])}

HitsWithin(k) ==
    Cardinality({x \in AllSamples : RankOfTarget(val_loader[x[1]][x[2]]) <= k})

\* the fraction f is the percentage of the loader's samples with the target
\* among the k best scored classes
IsTopKPercentage(f, k) ==
    f.num * Cardinality(AllSamples) = 100 * HitsWithin(k) * f.den

\* C10: the second value validate returns is the top-5 accuracy of the pass,
\* the percentage of the loader's samples whose target is among the five
\* highest-scored classes, and the first value is the top-1 accuracy.
C10_Top5Metric ==
    (vpc = "returned" /\ ~vargs.track_correct) =>
        /\ IsTopKPercentage(vresult[1], 1)
        /\ IsTopKPercentage(vresult[2], 5)

(***************************************************************************)
(* Claims about the class selection.                                       *)
(***************************************************************************)
\* j (0-based) with select_class_list[j] = c
IndexInList(c) == (CHOOSE j \in 1..Len(select_class_list) : select_class_list[j] = c) - 1

\* every sample kept is of a selected class c_j and has target j
Relabelled(samples, targets) ==
    /\ Len(targets) = Len(samples)
    /\ \A i \in 1..Len(samples) :
        /\ \E j \in 1..Len(select_class_list) : select_class_list[j] = samples[i]
        /\ targets[i] = IndexInList(samples[i])

\* C15: after the selection block every retained training sample and every
\* retained test sample of original class c_j has target j, so samples of
\* different original classes have different targets.
C15_Relabelling ==
    /\ (dpc \in {"select_test", "relabel_test", "done"} /\ select_class_list # <<>>) =>
            Relabelled(train_samples, train_targets)
    /\ (dpc = "done" /\ select_class_list # <<>>) =>
            Relabelled(test_samples, test_targets)

(***************************************************************************)
(* Claims about the label noise.                                           *)
(***************************************************************************)
\* samples of original class i that carry label r
Carry(i, r) ==
    Cardinality({k \in 1..Len(train_samples) : train_samples[k] = i /\ train_targets[k] = r})

\* im_per_class and num_shuffle of the set the injection started from
PerClassAtStart == Len(train_samples) \div num_classes

ShuffleAtStart == (PerClassAtStart * inject_noise.num) \div inject_noise.den

\* C16: for a training set with im_per_class samples of each class and
\* num_classes * num_shuffle <= im_per_class the injection completes, and
\* afterwards exactly num_shuffle samples of each class i carry each other
\* label r, the rest of class i keep label i, the number of samples is
\* unchanged and every label occurs im_per_class times.
C16_SymmetricNoise ==
    (inject_noise.num # 0 /\ num_classes * ShuffleAtStart <= PerClassAtStart) =>
        /\ dpc # "ValueError"
        /\ (dpc = "done") =>
            /\ Len(train_targets) = Len(train_samples)
            /\ \A i, r \in 0..(num_classes - 1) :
                    Carry(i, r) = IF r # i THEN ShuffleAtStart
                                  ELSE PerClassAtStart - (num_classes - 1) * ShuffleAtStart
            /\ \A r \in 0..(num_classes - 1) :
                    Cardinality({k \in 1..Len(train_targets) : train_targets[k] = r})
                        = PerClassAtStart

\* three classes, one sample of each class moved to each other label
C16_Witness ==
    /\ dpc = "done"
    /\ num_classes = 3
    /\ ShuffleAtStart = 1
    /\ PerClassAtStart = 4
    /\ Carry(0, 1) = 1
    /\ Carry(2, 0) = 1
    /\ Carry(1, 1) = 2

====
